---- MODULE Spec2Model ----
(***************************************************************************)
(* Mounting of an exFAT image: ExFat::open of src/exfat/src/lib.rs, with   *)
(* the byte decoders of src/util/src/mem.rs.  One action per step of open: *)
(* the boot-sector read, the four geometry checks, the active-FAT          *)
(* selection and FAT load, the root entry-set load and the bitmap check.   *)
(***************************************************************************)
EXTENDS Integers, Sequences, FiniteSets, TLC

VARIABLES
    pc,          \* position inside ExFat::open, or "Mounted" / "Failed"
    boot,        \* the 512 bytes read at line 26 (None before the read)
    params,      \* Arc<Params> built at lines 38-74 (None before)
    fat,         \* the Fat returned by Fat::load (None before)
    entries,     \* the EntrySet returned by EntrySet::load (None before)
    handle,      \* the ExFat value returned by Ok(Self {..}) (None otherwise)
    error,       \* the OpenError variant returned ("none" otherwise)
    failStep,    \* the step of open that returned the error ("none" otherwise)
    underflow,   \* whether the u8 subtraction of line 59 was evaluated with a negative result
    trace,       \* the orchestrator states visited by this run, in order
    reads,       \* the image regions this run has tried to read, in order:
                 \* <<"boot">>, <<"fat", copy index>>, <<"root">>
    queried,     \* Some(result of the last volume_label() call), None before
    prevFailure  \* Some(error and step of the previous failed call of open), None if none

vars == <<pc, boot, params, fat, entries, handle, error, failStep, underflow,
          trace, reads, queried, prevFailure>>

\* Option<T>: None, or Some(v) holding v
None == <<>>

Some(v) == <<v>>

IsSome(o) == o # <<>>

Get(o) == o[1]

(***************************************************************************)
(* Program constants.                                                      *)
(***************************************************************************)
BootSize == 512
MaxClusterShift == 25

\* b"EXFAT   " as bytes
Signature == <<69, 88, 70, 65, 84, 32, 32, 32>>

(***************************************************************************)
(* util::mem decoders.  A pointer to the boot sector is the function       *)
(* 0..511 -> byte; p.offset(i) is an index into it.                        *)
(***************************************************************************)
\* A decoder copies its bytes into a buffer it then reads whole, so no byte
\* of the buffer is read before it is written.
read_u8(p, i) == p[i]

read_u16_le(p, i) == p[i] + 256 * p[i + 1]

read_u32_le(p, i) == p[i] + 256 * p[i + 1] + 65536 * p[i + 2] + 16777216 * p[i + 3]

\* u8 subtraction as the release build computes it (wrapping)
Sub8(a, b) == (a - b) % 256

Pow2(n) == 2 ^ n

\* VolumeFlags::active_fat: the bit of volume_flags that selects the active FAT
\* (bit 0, ActiveFat, in the exFAT boot sector)
active_fat(flags) == flags % 2

(***************************************************************************)
(* The conditions ExFat::open branches on.                                 *)
(***************************************************************************)
IsExFat_ShortZeroCheck(b) ==
    /\ \A i \in 3..10 : b[i] = Signature[i - 2]
    /\ \A i \in 11..62 : b[i] = 0

\* line 32: &boot[3..11] == b"EXFAT   " and boot[11..64] all zero
IsExFat(b) ==
    /\ \A i \in 3..10 : b[i] = Signature[i - 2]
    /\ \A i \in 11..63 : b[i] = 0

BytesPerSectorShiftOk_From8(v) == v >= 8 /\ v <= 12

\* line 48
BytesPerSectorShiftOk(v) == v >= 9 /\ v <= 12

SectorsPerClusterShiftOk_OneMore(v, b) == v <= Sub8(MaxClusterShift + 1, read_u8(b, 108))

\* line 59: v <= (25 - read_u8(boot, 108)), in u8 arithmetic
SectorsPerClusterShiftOk(v, b) == v <= Sub8(MaxClusterShift, read_u8(b, 108))

NumberOfFatsOk_AtMost2(v) == v <= 2

\* line 68
NumberOfFatsOk(v) == v = 1 \/ v = 2

\* lines 38-74: the fields of Params, decoded from the boot sector
LoadParams(b) ==
    [ fat_offset |-> read_u32_le(b, 80),
      fat_length |-> read_u32_le(b, 84),
      cluster_heap_offset |-> read_u32_le(b, 88),
      cluster_count |-> read_u32_le(b, 92),
      first_cluster_of_root_directory |-> read_u32_le(b, 96),
      volume_flags |-> read_u16_le(b, 106),
      bytes_per_sector |-> Pow2(read_u8(b, 108)),
      sectors_per_cluster |-> Pow2(read_u8(b, 109)),
      number_of_fats |-> read_u8(b, 110) ]

CanLoadFat_Any(active, number_of_fats) == active = 0 \/ number_of_fats >= 1

\* line 78
CanLoadFat(active, number_of_fats) == active = 0 \/ number_of_fats = 2

RequiredBitmap_First(number_of_fats) == 0

\* lines 95-99: the slot of allocation_bitmaps the mount requires
RequiredBitmap(number_of_fats) == IF number_of_fats = 2 THEN 1 ELSE 0

HandleLabel_Dropped(e) == None

\* line 107: the label stored in the handle
HandleLabel(e) == e.volume_label

\* line 28
BootReadError == "ReadMainBootFailed"

\* line 81
FatLoadError == "ReadFatRegionFailed"

RootLoadError_AsFat == "ReadFatRegionFailed"

\* line 91
RootLoadError == "ReadRootFailed"

(***************************************************************************)
(* The images open is run on.  A boot sector is laid out as the code reads *)
(* it; sigPos / dirtyPos name one byte of the signature / of the rest that *)
(* is overwritten (-1: none).                                              *)
(***************************************************************************)
BootSector(sigPos, dirtyPos, flags, bps, spc, nfats) ==
    [ i \in 0..(BootSize - 1) |->
        IF i = dirtyPos THEN 1
        ELSE IF i = sigPos THEN 0
        ELSE IF i \in 3..10 THEN Signature[i - 2]
        ELSE IF i = 0 THEN 235
        ELSE IF i = 1 THEN 118
        ELSE IF i = 2 THEN 144
        ELSE IF i = 80 THEN 24
        ELSE IF i = 84 THEN 8
        ELSE IF i = 88 THEN 40
        ELSE IF i = 92 THEN 2
        ELSE IF i = 93 THEN 1
        ELSE IF i = 96 THEN 2
        ELSE IF i = 106 THEN flags
        ELSE IF i = 108 THEN bps
        ELSE IF i = 109 THEN spc
        ELSE IF i = 110 THEN nfats
        ELSE IF i = 510 THEN 85
        ELSE IF i = 511 THEN 170
        ELSE 0 ]

SigPositions == {-1, 3, 10}

DirtyPositions == {-1, 11, 63, 64}

FlagBytes == {0, 1, 2, 3}

BpsShiftBytes == {0, 8, 9, 10, 11, 12, 13, 26, 255}

SpcShiftBytes == {0, 13, 14, 15, 16, 17, 255}

NumberOfFatsBytes == {0, 1, 2, 3}

\* the values of a u8
Bytes == 0..255

\* every combination of the values above, every value of byte 108, and every
\* value of byte 109 with each valid byte 108
BootSectors ==
    { BootSector(sp, dp, f, b, s, n) :
        sp \in SigPositions, dp \in DirtyPositions, f \in FlagBytes,
        b \in BpsShiftBytes, s \in SpcShiftBytes, n \in NumberOfFatsBytes }
    \cup { BootSector(-1, -1, 0, b, 0, 1) : b \in Bytes }
    \cup { BootSector(-1, -1, 0, b, s, 1) : b \in 9..12, s \in Bytes }

Labels == {"TEST", "VOL"}

\* what EntrySet::load can return for the root directory
EntrySets ==
    [ allocation_bitmaps : [0..1 -> {None, Some("bitmap")}],
      volume_label : {None} \cup {Some(l) : l \in Labels} ]

(***************************************************************************)
(* The orchestrator state each position of open belongs to.                *)
(***************************************************************************)
StateOf(p) ==
    CASE p = "read_boot" -> "ReadingBootSector"
      [] p \in {"check_type", "bytes_per_sector", "sectors_per_cluster",
                "number_of_fats"} -> "ValidatingGeometry"
      [] p = "read_fat" -> "LoadingFat"
      [] p = "load_root" -> "LoadingRootDirectory"
      [] p = "check_bitmaps" -> "ValidatingBitmaps"
      [] OTHER -> p

Goto(p) ==
    /\ pc' = p
    /\ trace' = IF trace[Len(trace)] = StateOf(p) THEN trace
                ELSE Append(trace, StateOf(p))

\* return Err(e) from the step at pc
Fail(e) ==
    /\ pc' = "Failed"
    /\ error' = e
    /\ failStep' = pc
    /\ trace' = Append(trace, "Failed")

Init ==
    /\ pc = "read_boot"
    /\ boot = None
    /\ params = None
    /\ fat = None
    /\ entries = None
    /\ handle = None
    /\ error = "none"
    /\ failStep = "none"
    /\ underflow = FALSE
    /\ trace = <<"ReadingBootSector">>
    /\ reads = <<>>
    /\ queried = None
    /\ prevFailure = None

\* lines 25-29
ReadBootSector ==
    /\ pc = "read_boot"
    /\ reads' = Append(reads, <<"boot">>)
    /\ \/ /\ Fail(BootReadError)
          /\ UNCHANGED boot
       \/ /\ \E b \in BootSectors : boot' = b
          /\ Goto("check_type")
          /\ UNCHANGED <<error, failStep>>
    /\ UNCHANGED <<params, fat, entries, handle, underflow, queried, prevFailure>>

\* lines 31-34
CheckType ==
    /\ pc = "check_type"
    /\ IF IsExFat(boot)
       THEN Goto("bytes_per_sector") /\ UNCHANGED <<error, failStep>>
       ELSE Fail("NotExFat")
    /\ UNCHANGED <<boot, params, fat, entries, handle, underflow, reads, queried,
                   prevFailure>>

\* lines 45-53
BytesPerSector ==
    /\ pc = "bytes_per_sector"
    /\ IF BytesPerSectorShiftOk(read_u8(boot, 108))
       THEN Goto("sectors_per_cluster") /\ UNCHANGED <<error, failStep>>
       ELSE Fail("InvalidBytesPerSectorShift")
    /\ UNCHANGED <<boot, params, fat, entries, handle, underflow, reads, queried,
                   prevFailure>>

\* lines 54-64
SectorsPerCluster ==
    /\ pc = "sectors_per_cluster"
    /\ underflow' = (underflow \/ read_u8(boot, 108) > MaxClusterShift)
    /\ IF SectorsPerClusterShiftOk(read_u8(boot, 109), boot)
       THEN Goto("number_of_fats") /\ UNCHANGED <<error, failStep>>
       ELSE Fail("InvalidSectorsPerClusterShift")
    /\ UNCHANGED <<boot, params, fat, entries, handle, reads, queried, prevFailure>>

\* lines 65-74
NumberOfFats ==
    /\ pc = "number_of_fats"
    /\ IF NumberOfFatsOk(read_u8(boot, 110))
       THEN /\ params' = Some(LoadParams(boot))
            /\ Goto("read_fat")
            /\ UNCHANGED <<error, failStep>>
       ELSE /\ Fail("InvalidNumberOfFats")
            /\ UNCHANGED params
    /\ UNCHANGED <<boot, fat, entries, handle, underflow, reads, queried, prevFailure>>

\* ReadFat falling back to another read of the FAT region when the load fails
ReadFat_Retry ==
    /\ pc = "read_fat"
    /\ LET active == active_fat(Get(params).volume_flags) IN
       IF CanLoadFat(active, Get(params).number_of_fats)
       THEN /\ reads' = Append(reads, <<"fat", active>>)
            /\ \/ /\ fat' = Some([index |-> active])
                  /\ Goto("load_root")
                  /\ UNCHANGED <<error, failStep>>
               \/ /\ Len(reads) < 3
                  /\ UNCHANGED <<pc, trace, fat, error, failStep>>
       ELSE /\ Fail("InvalidNumberOfFats")
            /\ UNCHANGED <<fat, reads>>
    /\ UNCHANGED <<boot, params, entries, handle, underflow, queried, prevFailure>>

\* lines 76-85
ReadFat ==
    /\ pc = "read_fat"
    /\ LET active == active_fat(Get(params).volume_flags) IN
       IF CanLoadFat(active, Get(params).number_of_fats)
       THEN /\ reads' = Append(reads, <<"fat", active>>)
            /\ \/ /\ fat' = Some([index |-> active])
                  /\ Goto("load_root")
                  /\ UNCHANGED <<error, failStep>>
               \/ /\ Fail(FatLoadError)
                  /\ UNCHANGED fat
       ELSE /\ Fail("InvalidNumberOfFats")
            /\ UNCHANGED <<fat, reads>>
    /\ UNCHANGED <<boot, params, entries, handle, underflow, queried, prevFailure>>

\* lines 87-92
LoadRoot ==
    /\ pc = "load_root"
    /\ reads' = Append(reads, <<"root">>)
    /\ \/ /\ \E e \in EntrySets : entries' = Some(e)
          /\ Goto("check_bitmaps")
          /\ UNCHANGED <<error, failStep>>
       \/ /\ Fail(RootLoadError)
          /\ UNCHANGED entries
    /\ UNCHANGED <<boot, params, fat, handle, underflow, queried, prevFailure>>

\* lines 94-108
CheckBitmaps ==
    /\ pc = "check_bitmaps"
    /\ IF Get(entries).allocation_bitmaps[RequiredBitmap(Get(params).number_of_fats)] = None
       THEN /\ Fail("NoAllocationBitmap")
            /\ UNCHANGED handle
       ELSE /\ handle' = Some([params |-> Get(params), fat |-> Get(fat),
                               volume_label |-> HandleLabel(Get(entries))])
            /\ Goto("Mounted")
            /\ UNCHANGED <<error, failStep>>
    /\ UNCHANGED <<boot, params, fat, entries, underflow, reads, queried, prevFailure>>

\* lines 111-113
VolumeLabel ==
    /\ pc = "Mounted"
    /\ queried' = Some(Get(handle).volume_label)
    /\ UNCHANGED <<pc, boot, params, fat, entries, handle, error, failStep, underflow,
                   trace, reads, prevFailure>>

\* the caller runs open on another image after a failed mount
Reopen ==
    /\ pc = "Failed"
    /\ prevFailure' = Some([error |-> error, step |-> failStep])
    /\ pc' = "read_boot"
    /\ boot' = None
    /\ params' = None
    /\ fat' = None
    /\ entries' = None
    /\ error' = "none"
    /\ failStep' = "none"
    /\ underflow' = FALSE
    /\ trace' = <<"ReadingBootSector">>
    /\ reads' = <<>>
    /\ UNCHANGED <<handle, queried>>

Next ==
    \/ ReadBootSector
    \/ CheckType
    \/ BytesPerSector
    \/ SectorsPerCluster
    \/ NumberOfFats
    \/ ReadFat
    \/ LoadRoot
    \/ CheckBitmaps
    \/ VolumeLabel

Spec == Init /\ [][Next]_vars

NextRuns == Next \/ Reopen

SpecRuns == Init /\ [][NextRuns]_vars

(***************************************************************************)
(* Vocabulary of the properties: where a run of open stands.               *)
(***************************************************************************)
StepIdx(p) ==
    CASE p = "read_boot" -> 1
      [] p = "check_type" -> 2
      [] p = "bytes_per_sector" -> 3
      [] p = "sectors_per_cluster" -> 4
      [] p = "number_of_fats" -> 5
      [] p = "read_fat" -> 6
      [] p = "load_root" -> 7
      [] p = "check_bitmaps" -> 8
      [] OTHER -> 9

\* the run failed in step p
FailedAt(p) == pc = "Failed" /\ failStep = p

\* step p ran and did not fail
Passed(p) == StepIdx(IF pc = "Failed" THEN failStep ELSE pc) > StepIdx(p)

\* step p ran
Done(p) == Passed(p) \/ FailedAt(p)

OnlyBootRead == reads = << <<"boot">> >>

HeaderOk(b) ==
    /\ <<b[3], b[4], b[5], b[6], b[7], b[8], b[9], b[10]>> = Signature
    /\ \A i \in 11..63 : b[i] = 0

(***************************************************************************)
(* C1: a boot sector with a non-zero byte in [11,64), or with bytes [3,11) *)
(* other than "EXFAT   ", makes open fail with NotExFat whatever its other *)
(* fields hold, and nothing but the boot sector has been read.             *)
(***************************************************************************)
C1_NotExFat ==
    (Done("check_type") /\ ~HeaderOk(boot))
        => FailedAt("check_type") /\ error = "NotExFat" /\ OnlyBootRead

C1_Witness ==
    /\ FailedAt("check_type") /\ error = "NotExFat"
    /\ \A i \in 3..10 : boot[i] = Signature[i - 2]
    /\ boot[63] # 0
    /\ boot[108] = 8 /\ boot[109] = 255 /\ boot[110] = 0

(***************************************************************************)
(* C2: after the type check, the bytes_per_sector shift is accepted iff    *)
(* it is in 9..12; otherwise open fails with InvalidBytesPerSectorShift;   *)
(* an accepted shift gives bytes_per_sector = 2^shift.                     *)
(***************************************************************************)
C2_BytesPerSectorShift ==
    /\ Done("bytes_per_sector") =>
          /\ FailedAt("bytes_per_sector") <=> boot[108] \notin 9..12
          /\ FailedAt("bytes_per_sector") => error = "InvalidBytesPerSectorShift"
    /\ error = "InvalidBytesPerSectorShift" => FailedAt("bytes_per_sector")
    /\ IsSome(params) =>
          /\ boot[108] = 9 => Get(params).bytes_per_sector = 512
          /\ boot[108] = 10 => Get(params).bytes_per_sector = 1024
          /\ boot[108] = 11 => Get(params).bytes_per_sector = 2048
          /\ boot[108] = 12 => Get(params).bytes_per_sector = 4096

C2_Witness ==
    /\ IsSome(params)
    /\ boot[108] = 12
    /\ Get(params).bytes_per_sector = 4096

(***************************************************************************)
(* C3: with bytes_per_sector shift b in 9..12, the sectors_per_cluster     *)
(* shift s is accepted iff s <= 25 - b; the subtraction is never evaluated *)
(* with b > 25; an accepted geometry has a cluster of at most 2^25 bytes.  *)
(***************************************************************************)
C3_SectorsPerClusterShift ==
    /\ ~underflow
    /\ Done("sectors_per_cluster") =>
          /\ boot[108] \in 9..12
          /\ FailedAt("sectors_per_cluster") <=> boot[109] > 25 - boot[108]
          /\ FailedAt("sectors_per_cluster") => error = "InvalidSectorsPerClusterShift"
    /\ error = "InvalidSectorsPerClusterShift" => FailedAt("sectors_per_cluster")
    /\ IsSome(params) =>
          Get(params).bytes_per_sector * Get(params).sectors_per_cluster <= 33554432

C3_Witness ==
    /\ IsSome(params)
    /\ boot[109] = 25 - boot[108]
    /\ Get(params).bytes_per_sector * Get(params).sectors_per_cluster = 33554432

(***************************************************************************)
(* C4: the geometry checks short-circuit in the order type, bytes per      *)
(* sector, sectors per cluster, number of FATs: the error is that of the   *)
(* first check the boot sector violates, and it is returned with only the  *)
(* boot sector read.                                                       *)
(***************************************************************************)
FirstViolation(b) ==
    IF ~HeaderOk(b) THEN "NotExFat"
    ELSE IF b[108] < 9 \/ b[108] > 12 THEN "InvalidBytesPerSectorShift"
    ELSE IF b[109] > 25 - b[108] THEN "InvalidSectorsPerClusterShift"
    ELSE IF b[110] \notin {1, 2} THEN "InvalidNumberOfFats"
    ELSE "none"

GeometryErrors ==
    {"NotExFat", "InvalidBytesPerSectorShift", "InvalidSectorsPerClusterShift",
     "InvalidNumberOfFats"}

C4_FirstViolationWins ==
    /\ (pc = "Failed" /\ StateOf(failStep) = "ValidatingGeometry") =>
          error = FirstViolation(boot)
    /\ Passed("number_of_fats") => FirstViolation(boot) = "none"
    /\ (Done("check_type") /\ FirstViolation(boot) # "none") =>
          \/ StateOf(pc) = "ValidatingGeometry"
          \/ pc = "Failed" /\ StateOf(failStep) = "ValidatingGeometry"
    /\ error \in GeometryErrors => OnlyBootRead

C4_Witness ==
    /\ FailedAt("bytes_per_sector") /\ error = "InvalidBytesPerSectorShift"
    /\ boot[108] = 13 /\ boot[109] = 255 /\ boot[110] = 3

(***************************************************************************)
(* C5: a FAT copy is loaded only if the active index is 0 or there are two *)
(* FATs, and the copy loaded is the active one; active index 1 with one    *)
(* FAT fails with InvalidNumberOfFats before any FAT or root read; a       *)
(* mounted volume's FAT copy index is below number_of_fats.                *)
(***************************************************************************)
C5_ActiveFat ==
    /\ \A i \in 1..Len(reads) :
          reads[i][1] = "fat" =>
              /\ reads[i][2] = active_fat(read_u16_le(boot, 106))
              /\ reads[i][2] = 0 \/ boot[110] = 2
    /\ (Done("read_fat") /\ active_fat(read_u16_le(boot, 106)) = 1 /\ boot[110] = 1) =>
          FailedAt("read_fat") /\ error = "InvalidNumberOfFats" /\ OnlyBootRead
    /\ pc = "Mounted" =>
          /\ Get(fat).index < Get(params).number_of_fats
          /\ Get(handle).fat.index < Get(handle).params.number_of_fats

C5_Witness ==
    /\ FailedAt("read_fat") /\ error = "InvalidNumberOfFats"
    /\ active_fat(read_u16_le(boot, 106)) = 1 /\ boot[110] = 1
    /\ OnlyBootRead

C7_ActiveBitmapPresent ==
    pc = "Mounted" => Get(entries).allocation_bitmaps[Get(fat).index] # None

(***************************************************************************)
(* C8: a run visits a prefix of the five orchestrator states in order,     *)
(* ends in Mounted (after all five) or Failed (at the first failing step), *)
(* reads nothing after the failure, and takes no step after Failed.        *)
(***************************************************************************)
Order ==
    <<"ReadingBootSector", "ValidatingGeometry", "LoadingFat", "LoadingRootDirectory",
      "ValidatingBitmaps">>

Regions == [i \in 1..Len(reads) |-> reads[i][1]]

\* the regions read by a run that stands in, or failed in, Order[k]
RegionsAt(k, failed) ==
    IF k <= 2 THEN {<<"boot">>}
    ELSE IF k = 3 THEN IF failed THEN {<<"boot">>, <<"boot", "fat">>} ELSE {<<"boot">>}
    ELSE IF k = 4 THEN IF failed THEN {<<"boot", "fat", "root">>} ELSE {<<"boot", "fat">>}
    ELSE {<<"boot", "fat", "root">>}

C8_Linear ==
    /\ \E k \in 1..5 :
          \/ /\ pc \notin {"Mounted", "Failed"}
             /\ StateOf(pc) = Order[k]
             /\ trace = SubSeq(Order, 1, k)
             /\ k > 1 => Regions \in RegionsAt(k, FALSE)
          \/ /\ pc = "Failed"
             /\ StateOf(failStep) = Order[k]
             /\ trace = Append(SubSeq(Order, 1, k), "Failed")
             /\ Regions \in RegionsAt(k, TRUE)
          \/ /\ pc = "Mounted"
             /\ k = 5
             /\ trace = Append(Order, "Mounted")
             /\ Regions = <<"boot", "fat", "root">>
    /\ pc = "Failed" <=> error # "none"
    /\ pc = "Mounted" <=> IsSome(handle)
    /\ pc = "Mounted" =>
          /\ HeaderOk(boot) /\ FirstViolation(boot) = "none"
          /\ IsSome(params) /\ IsSome(fat) /\ IsSome(entries)

C8_OneShot ==
    [][/\ pc # "Failed"
       /\ pc = "Mounted" => pc' = "Mounted" /\ trace' = trace /\ reads' = reads
       /\ pc' # pc => \/ pc' \in {"Mounted", "Failed"}
                      \/ StepIdx(pc') = StepIdx(pc) + 1]_vars

C8_LinearOneShot == []C8_Linear /\ C8_OneShot

C8_Witness ==
    /\ pc = "Failed" /\ error = "ReadRootFailed"
    /\ trace = <<"ReadingBootSector", "ValidatingGeometry", "LoadingFat",
                 "LoadingRootDirectory", "Failed">>

(***************************************************************************)
(* C9 as stated: two failed runs of open that return the same OpenError    *)
(* variant failed in the same step.                                        *)
(***************************************************************************)
C9_VariantNamesStep ==
    (IsSome(prevFailure) /\ pc = "Failed" /\ Get(prevFailure).error = error)
        => Get(prevFailure).step = failStep

(***************************************************************************)
(* C9 amended: every variant other than InvalidNumberOfFats is returned by *)
(* one step only; InvalidNumberOfFats is returned by the number_of_fats    *)
(* check or by the active-FAT selection, and by no other step.             *)
(***************************************************************************)
C9_VariantNamesStepButFats ==
    /\ (IsSome(prevFailure) /\ pc = "Failed" /\ Get(prevFailure).error = error
            /\ error # "InvalidNumberOfFats")
          => Get(prevFailure).step = failStep
    /\ (pc = "Failed" /\ error = "InvalidNumberOfFats")
          => failStep \in {"number_of_fats", "read_fat"}

C9_Witness ==
    /\ IsSome(prevFailure) /\ pc = "Failed"
    /\ error = "ReadFatRegionFailed"
    /\ Get(prevFailure).error = error
    /\ failStep = "read_fat"

(***************************************************************************)
(* C10: a mounted handle's volume_label() is the label of the root entry   *)
(* set loaded by open, and the handle never changes; a failed open leaves  *)
(* no handle and nothing to query, although the label was parsed.          *)
(***************************************************************************)
C10_Label ==
    /\ pc = "Mounted" =>
          /\ IsSome(handle)
          /\ Get(handle).volume_label = Get(entries).volume_label
    /\ IsSome(queried) =>
          /\ pc = "Mounted"
          /\ Get(queried) = Get(entries).volume_label
    /\ pc # "Mounted" => handle = None /\ queried = None

C10_Stable == [][IsSome(handle) => handle' = handle]_vars

C10_AllOrNothing == []C10_Label /\ C10_Stable

C10_Witness ==
    /\ pc = "Mounted"
    /\ boot[110] = 1
    /\ Get(entries).allocation_bitmaps[0] # None
    /\ Get(entries).volume_label = Some("TEST")
    /\ queried = Some(Some("TEST"))

====
